---- MODULE Spec2Model ----
(***************************************************************************)
(* GameSession (models/game_session.py) and its State Pattern              *)
(* (state/*.py): a live quiz session driven by a host through              *)
(* lobby -> question -> leaderboard -> ... -> finished, while players      *)
(* join, leave and record answers.                                         *)
(*                                                                         *)
(* Spec     : every public function of GameSession that writes a field     *)
(*            runs as one indivisible step (one caller at a time).         *)
(* CommandSpec : of those, the host's commands and the players'            *)
(*            operations only.                                             *)
(* ConcSpec : callers are threads; an operation is the sequence of its     *)
(*            statements and the threads interleave between statements.    *)
(*            GameSession holds no lock, so nothing narrows that.          *)
(***************************************************************************)
EXTENDS Integers, Sequences, FiniteSets

\* Largest quiz (number of questions) explored.
MaxQuestions == 3

\* The largest number of points one add_score call or score assignment is
\* given, in absolute value.
MaxPoints == 2

\* The scores followed: add_score is followed while the score stays within
\* -MaxScore..MaxScore.
MaxScore == 4

\* The longest option list a ChoiceQuestion is constructed with.
MaxOptions == 3

\* The option texts.
OptionTexts == {"x", "y"}

\* Connection identities and nicknames players join with.
Conns == {"c1", "c2"}
Nicks == {"ann", "bob"}

\* Threads calling into one session in ConcSpec.
Threads == {"t1", "t2"}

StateNames == {"lobby", "question", "leaderboard", "finished"}

\* The host commands.
Triggers == {"trigger_next", "trigger_start_question"}

\* Python's None, for an absent successor state or an absent return value.
None == "none"

VARIABLES
    quiz,                       \* Quiz._questions: the ordered question list
    state,                      \* GameSession._state, by its state_name
    current_question_index,     \* GameSession._current_question_index
    players,                    \* GameSession._players: connection_id -> nickname
    current_question_answered,  \* GameSession._current_question_answered
    broadcast_callback,         \* GameSession._broadcast_callback is not None
    \* ---- observation of the calls (history, not program state)
    last,                       \* the last returned call: [call, arg, ret], call being the operation
    tick,                       \* flips on every returned call
    hook_calls,                 \* invocations of the broadcast callback
    advance_calls,              \* invocations of advance_to_next_question by get_next_state
    trace,                      \* the distinct state names taken, in order
    entries,                    \* the cursor at each replacement of the state by Question
    q_true,                     \* connections given True since the state last became Question
    prev_answered,              \* the answered-set as the last clear found it
    steps,                      \* the steps transition_to ran in the last returned call
    clear_calls,                \* invocations of clear_current_question_answers
    \* ---- threads (ConcSpec)
    pc,                         \* where each thread stands in its call
    call,                       \* the operation a thread is in, or returned from last
    arg,                        \* the connection_id of a thread's record_answer call
    ret,                        \* what a thread's last call returned
    next_state,                 \* trigger_*'s local next_state
    in_window,                  \* the thread's call saw no transition step since it began
    saw_true,                   \* at its membership check the connection already held a True
    raced,                      \* another record_answer ran between the thread's check and insertion
    added,                      \* connections given True since the last clear
    clean_window,               \* no insertion was pending when the last clear ran
    second_true,                \* connections given True again, by a later call, for the question the state last became
    \* ---- a Player (PlayerSpec)
    score,                      \* Player._score
    \* ---- two sessions over one Quiz (PairSpec)
    heap,                       \* the dict and set objects the sessions' fields refer to
    sess,                       \* each session's fields: state, cursor, references to its dict and set
    \* ---- the direct calls (Spec)
    direct                      \* a caller has called transition_to, clear_current_question_answers or a setter itself

sessionVars == <<quiz, state, current_question_index, players,
                 current_question_answered, broadcast_callback>>
historyVars == <<tick, last, hook_calls, advance_calls, trace, entries,
                 q_true, prev_answered, steps, clear_calls>>
threadVars == <<pc, call, arg, ret, next_state, in_window, saw_true, raced,
                added, clean_window, second_true>>
playerVars == <<score>>
pairVars == <<heap, sess>>
directVars == <<direct>>
entityVars == <<playerVars, pairVars, directVars>>
vars == <<sessionVars, historyVars, threadVars, entityVars>>

----------------------------------------------------------------------------
(* Quiz *)

\* A quiz of n questions; question i is named by its position.
QuizOf(n) == [i \in 1..n |-> i]

\* A constructor raised ValueError: no entity.
Raises == [ok |-> FALSE]

\* Quiz.__init__ without the test for an empty question list.
QuizAcceptsEmpty(questions) == [ok |-> TRUE, questions |-> questions]

\* Quiz.__init__: ValueError on an empty question list, else the entity with
\* a copy of the list.
Quiz(questions) ==
    IF questions = <<>> THEN Raises ELSE [ok |-> TRUE, questions |-> questions]

\* The question sequences of the quizzes that can be constructed from up to
\* MaxQuestions questions.
Quizzes ==
    {made.questions :
        made \in {m \in {Quiz(QuizOf(n)) : n \in 0..MaxQuestions} : m.ok}}

\* Quiz.question_count
question_count(q) == Len(q)

\* Quiz.get_question_at: None outside 0 <= index < len (index is 0-based).
get_question_at(q, index) ==
    IF 0 <= index /\ index < Len(q) THEN q[index + 1] ELSE None

----------------------------------------------------------------------------
(* GameSession: the pure parts *)

\* has_next_question comparing with <= (off by one).
has_next_question_off_by_one(index, q) == index + 1 <= question_count(q)

\* GameSession.has_next_question
has_next_question(index, q) == index + 1 < question_count(q)

\* advance_to_next_question returning True without moving the cursor.
advance_to_next_question_forgets(index, q) ==
    IF ~has_next_question(index, q)
    THEN [index |-> index, ret |-> FALSE]
    ELSE [index |-> index, ret |-> TRUE]

\* GameSession.advance_to_next_question: the new cursor and the return value.
advance_to_next_question(index, q) ==
    IF ~has_next_question(index, q)
    THEN [index |-> index, ret |-> FALSE]
    ELSE [index |-> index + 1, ret |-> TRUE]

\* GameSession.record_answer, the membership test of its first statement.
already_answered(answered, c) == c \in answered

\* record_answer returning True without inserting.
add_answer_forgets(answered, c) == answered

\* record_answer replacing the answered-set by the one connection.
add_answer_overwrites(answered, c) == {c}

\* GameSession.record_answer, the insertion of its second statement.
add_answer(answered, c) == answered \cup {c}

\* has_answered_current_question answering the opposite.
has_answered_current_question_negated(answered, c) == c \notin answered

\* GameSession.has_answered_current_question
has_answered_current_question(answered, c) == c \in answered

\* GameSession.get_player: dict.get(connection_id)
get_player(map, c) == IF c \in DOMAIN map THEN map[c] ELSE None

\* GameSession.clear_current_question_answers
clear_current_question_answers(answered) == {}

\* GameSession.get_current_question
get_current_question(index, q) == get_question_at(q, index)

----------------------------------------------------------------------------
(* The state variants *)

\* can_start_question overridden to True in every variant.
can_start_question_everywhere(s) == TRUE

\* can_start_question: True in LobbyState, GameState's default False elsewhere.
can_start_question(s) == s = "lobby"

\* can_go_next left True in LobbyState as well.
can_go_next_in_lobby(s) == s \in {"lobby", "question", "leaderboard"}

\* can_go_next: True in QuestionState and LeaderboardState, False in
\* FinishedState, GameState's default False in LobbyState.
can_go_next(s) == s \in {"question", "leaderboard"}

\* LobbyState.get_next_state advancing the cursor when it starts the first
\* question.
LobbyNextStateAdvances(index, q) ==
    IF question_count(q) = 0
    THEN [next |-> None, index |-> index, advanced |-> 0]
    ELSE [next |-> "question",
          index |-> advance_to_next_question(index, q).index,
          advanced |-> 1]

\* LobbyState.get_next_state
LobbyNextState(index, q) ==
    IF question_count(q) = 0
    THEN [next |-> None, index |-> index, advanced |-> 0]
    ELSE [next |-> "question", index |-> index, advanced |-> 0]

\* QuestionState.get_next_state as its class docstring words it: straight to
\* FinishedState when no question is left.
QuestionNextStateSkipsLeaderboard(index, q) ==
    IF has_next_question(index, q)
    THEN [next |-> "leaderboard", index |-> index, advanced |-> 0]
    ELSE [next |-> "finished", index |-> index, advanced |-> 0]

\* QuestionState.get_next_state
QuestionNextState(index, q) ==
    [next |-> "leaderboard", index |-> index, advanced |-> 0]

\* LeaderboardState.get_next_state branching on advance_to_next_question's
\* own result instead of asking has_next_question first.
LeaderboardNextStateAlwaysAdvances(index, q) ==
    LET adv == advance_to_next_question(index, q)
    IN  IF adv.ret
        THEN [next |-> "question", index |-> adv.index, advanced |-> 1]
        ELSE [next |-> "finished", index |-> adv.index, advanced |-> 1]

\* LeaderboardState.get_next_state finishing after the first question
\* whatever the quiz holds.
LeaderboardNextStateFinishesEarly(index, q) ==
    [next |-> "finished", index |-> index, advanced |-> 0]

\* LeaderboardState.get_next_state: advances the cursor itself.
LeaderboardNextState(index, q) ==
    IF has_next_question(index, q)
    THEN [next |-> "question",
          index |-> advance_to_next_question(index, q).index,
          advanced |-> 1]
    ELSE [next |-> "finished", index |-> index, advanced |-> 0]

\* FinishedState.get_next_state
FinishedNextState(index, q) ==
    [next |-> None, index |-> index, advanced |-> 0]

\* s.get_next_state(session): the successor, the cursor it leaves and the
\* number of advance_to_next_question calls it made.
get_next_state(s, index, q) ==
    CASE s = "lobby" -> LobbyNextState(index, q)
      [] s = "question" -> QuestionNextState(index, q)
      [] s = "leaderboard" -> LeaderboardNextState(index, q)
      [] OTHER -> FinishedNextState(index, q)

\* on_enter clearing the answered-set on entry to Leaderboard as well.
on_enter_clears_on_leaderboard(s, answered) ==
    IF s \in {"question", "leaderboard"}
    THEN clear_current_question_answers(answered) ELSE answered

\* s.on_enter(session): QuestionState clears the answered-set, the others
\* keep GameState's no-op.
on_enter(s, answered) ==
    IF s = "question" THEN clear_current_question_answers(answered) ELSE answered

\* s.on_leave(session): GameState's no-op in every variant.
on_leave(s, answered) == answered

----------------------------------------------------------------------------
(* Construction *)

\* Two sessions constructed over the same Quiz object.
Sessions == {"A", "B"}

\* The fields of a GameSession that refer to a mutable object.
Fields == {"players", "answered"}

\* One dict and one set for all sessions, as a class attribute or a mutable
\* default argument would give.
NewObjectShared(s, f) == <<"GameSession", f>>

\* The object GameSession.__init__ creates for field f of session s: the
\* literal {} and the call set() give a new object in each construction.
NewObject(s, f) == <<s, f>>

\* GameSession.__init__ with the default initial_state, over a Quiz that
\* Quiz.__init__ accepted (at least one question).
Init ==
    /\ quiz \in Quizzes
    /\ state = "lobby"
    /\ current_question_index = 0
    /\ players = <<>>
    /\ current_question_answered = {}
    /\ broadcast_callback = FALSE
    /\ last = [call |-> None, arg |-> None, ret |-> None]
    /\ tick = 0
    /\ hook_calls = 0
    /\ advance_calls = 0
    /\ trace = <<"lobby">>
    /\ entries = <<>>
    /\ q_true = {}
    /\ prev_answered = {}
    /\ steps = <<>>
    /\ clear_calls = 0
    /\ pc = [t \in Threads |-> "idle"]
    /\ call = [t \in Threads |-> None]
    /\ arg = [t \in Threads |-> None]
    /\ ret = [t \in Threads |-> None]
    /\ next_state = [t \in Threads |-> None]
    /\ in_window = [t \in Threads |-> FALSE]
    /\ saw_true = [t \in Threads |-> FALSE]
    /\ raced = [t \in Threads |-> FALSE]
    /\ added = {}
    /\ clean_window = TRUE
    /\ second_true = {}
    /\ score = 0
    /\ direct = FALSE
    /\ heap = [o \in {NewObject(s, f) : s \in Sessions, f \in Fields} |->
                  IF o[2] = "players" THEN <<>> ELSE {}]
    /\ sess = [s \in Sessions |->
                  [state |-> "lobby", index |-> 0,
                   players |-> NewObject(s, "players"),
                   answered |-> NewObject(s, "answered")]]

\* The histories describe a session driven through its commands and
\* operations. They are kept up to the first direct call of transition_to,
\* clear_current_question_answers or a setter, and dropped from then on.
History(kept, dropped) == IF direct THEN dropped ELSE kept

\* A call returned: what it was and what it gave back.
Returned(op, a, r) ==
    /\ last' = [call |-> op, arg |-> a, ret |-> r]
    /\ tick' = 1 - tick

----------------------------------------------------------------------------
(* CommandSpec: one indivisible step per host command or player operation *)

\* The Player of nickname nick on connection c, as add_player is given it.
Player(c, nick) == [connection_id |-> c, nickname |-> nick]

\* add_player storing with dict.setdefault: a connection already in the map
\* keeps its earlier player.
add_player_keeps_first(c, nick) ==
    /\ players' = [k \in (DOMAIN players) \cup {c} |->
                      IF k \in DOMAIN players THEN players[k] ELSE nick]
    /\ Returned("add_player", Player(c, nick), None)
    /\ UNCHANGED <<quiz, state, current_question_index,
                   current_question_answered, broadcast_callback>>
    /\ UNCHANGED <<hook_calls, advance_calls, trace, entries, q_true,
                   prev_answered, clear_calls>>
    /\ steps' = <<>>
    /\ UNCHANGED <<threadVars, entityVars>>

\* GameSession.add_player(player): self._players[player.connection_id] = player
add_player(c, nick) ==
    /\ players' = [k \in (DOMAIN players) \cup {c} |->
                      IF k = c THEN nick ELSE players[k]]
    /\ Returned("add_player", Player(c, nick), None)
    /\ UNCHANGED <<quiz, state, current_question_index,
                   current_question_answered, broadcast_callback>>
    /\ UNCHANGED <<hook_calls, advance_calls, trace, entries, q_true,
                   prev_answered, clear_calls>>
    /\ steps' = <<>>
    /\ UNCHANGED <<threadVars, entityVars>>

\* remove_player discarding the connection from the answered-set as well.
remove_player_forgets_answer(c) ==
    /\ players' = [k \in (DOMAIN players) \ {c} |-> players[k]]
    /\ current_question_answered' = current_question_answered \ {c}
    /\ Returned("remove_player", c,
                IF c \in DOMAIN players THEN players[c] ELSE None)
    /\ UNCHANGED <<quiz, state, current_question_index, broadcast_callback>>
    /\ UNCHANGED <<hook_calls, advance_calls, trace, entries, q_true,
                   prev_answered, clear_calls>>
    /\ steps' = <<>>
    /\ UNCHANGED <<threadVars, entityVars>>

\* remove_player reading the map with dict.get: the player is returned and
\* stays in the map.
remove_player_get(c) ==
    /\ players' = players
    /\ Returned("remove_player", c,
                IF c \in DOMAIN players THEN players[c] ELSE None)
    /\ UNCHANGED <<quiz, state, current_question_index,
                   current_question_answered, broadcast_callback>>
    /\ UNCHANGED <<hook_calls, advance_calls, trace, entries, q_true,
                   prev_answered, clear_calls>>
    /\ steps' = <<>>
    /\ UNCHANGED <<threadVars, entityVars>>

\* GameSession.remove_player: dict.pop(connection_id, None)
remove_player(c) ==
    /\ players' = [k \in (DOMAIN players) \ {c} |-> players[k]]
    /\ Returned("remove_player", c,
                IF c \in DOMAIN players THEN players[c] ELSE None)
    /\ UNCHANGED <<quiz, state, current_question_index,
                   current_question_answered, broadcast_callback>>
    /\ UNCHANGED <<hook_calls, advance_calls, trace, entries, q_true,
                   prev_answered, clear_calls>>
    /\ steps' = <<>>
    /\ UNCHANGED <<threadVars, entityVars>>

\* GameSession.set_broadcast_callback
set_broadcast_callback(registered) ==
    /\ broadcast_callback' = registered
    /\ Returned("set_broadcast_callback", None, None)
    /\ UNCHANGED <<quiz, state, current_question_index, players,
                   current_question_answered>>
    /\ UNCHANGED <<hook_calls, advance_calls, trace, entries, q_true,
                   prev_answered, clear_calls>>
    /\ steps' = <<>>
    /\ UNCHANGED <<threadVars, entityVars>>

\* record_answer accepting an answer only in Question and only from a
\* connection in the player map.
record_answer_gated(c) ==
    /\ IF \/ already_answered(current_question_answered, c)
          \/ state # "question"
          \/ c \notin DOMAIN players
       THEN /\ Returned("record_answer", c, FALSE)
            /\ UNCHANGED <<current_question_answered, q_true>>
       ELSE /\ current_question_answered' = add_answer(current_question_answered, c)
            /\ Returned("record_answer", c, TRUE)
            /\ q_true' = q_true \cup {c}
    /\ UNCHANGED <<quiz, state, current_question_index, players,
                   broadcast_callback>>
    /\ UNCHANGED <<hook_calls, advance_calls, trace, entries, prev_answered,
                   clear_calls>>
    /\ steps' = <<>>
    /\ UNCHANGED <<threadVars, entityVars>>

\* GameSession.record_answer
record_answer(c) ==
    /\ IF already_answered(current_question_answered, c)
       THEN /\ Returned("record_answer", c, FALSE)
            /\ UNCHANGED <<current_question_answered, q_true>>
       ELSE /\ current_question_answered' = add_answer(current_question_answered, c)
            /\ Returned("record_answer", c, TRUE)
            /\ q_true' = History(q_true \cup {c}, {})
    /\ UNCHANGED <<quiz, state, current_question_index, players,
                   broadcast_callback>>
    /\ UNCHANGED <<hook_calls, advance_calls, trace, entries, prev_answered,
                   clear_calls>>
    /\ steps' = <<>>
    /\ UNCHANGED <<threadVars, entityVars>>

\* The number of clear_current_question_answers calls s.on_enter makes.
on_enter_clear_calls(s) == IF s = "question" THEN 1 ELSE 0

\* transition_to invoking the callback before on_enter: the callback reads
\* the answered-set on_enter has not cleared yet.
transition_to_callback_before_on_enter(new_state, index) ==
    LET left == on_leave(state, current_question_answered)
        entered == on_enter(new_state, left)
    IN  /\ state' = new_state
        /\ current_question_answered' = entered
        /\ hook_calls' = IF broadcast_callback THEN hook_calls + 1 ELSE hook_calls
        /\ steps' = << [step |-> "on_leave", on |-> state, answered |-> left],
                       [step |-> "set_state", on |-> new_state, answered |-> left] >>
                    \o (IF broadcast_callback
                        THEN << [step |-> "callback", on |-> new_state,
                                 answered |-> left] >>
                        ELSE << >>)
                    \o << [step |-> "on_enter", on |-> new_state,
                           answered |-> entered] >>
        /\ clear_calls' = clear_calls + on_enter_clear_calls(new_state)
        /\ trace' = Append(trace, new_state)
        /\ entries' = IF new_state = "question"
                      THEN Append(entries, index) ELSE entries
        /\ q_true' = IF new_state = "question" THEN {} ELSE q_true
        /\ prev_answered' = IF new_state = "question" THEN left ELSE prev_answered

\* The steps GameSession.transition_to(new_state) runs, each logged with the
\* state it ran on: on_leave of the state self._state refers to unless it is
\* None, the state replaced, on_enter of the state self._state refers to then
\* unless it is None, the callback if one is set; the callback with the
\* state name and the answered-set it can read.
transition_steps(new_state) ==
    LET left == on_leave(state, current_question_answered)
        entered == on_enter(new_state, left)
    IN  (IF state # None
         THEN << [step |-> "on_leave", on |-> state, answered |-> left] >>
         ELSE << >>)
        \o << [step |-> "set_state", on |-> new_state, answered |-> left] >>
        \o (IF new_state # None
            THEN << [step |-> "on_enter", on |-> new_state, answered |-> entered] >>
            ELSE << >>)
        \o (IF broadcast_callback
            THEN << [step |-> "callback", on |-> new_state, answered |-> entered] >>
            ELSE << >>)

\* GameSession.transition_to(new_state), the cursor being index.
transition_to(new_state, index) ==
    LET left == on_leave(state, current_question_answered)
        entered == on_enter(new_state, left)
    IN  /\ state' = new_state
        /\ current_question_answered' = entered
        /\ steps' = transition_steps(new_state)
        /\ hook_calls' = History(IF broadcast_callback THEN hook_calls + 1
                                 ELSE hook_calls, 0)
        /\ clear_calls' = History(clear_calls + on_enter_clear_calls(new_state), 0)
        /\ trace' = History(Append(trace, new_state), <<>>)
        /\ entries' = History(IF new_state = "question"
                              THEN Append(entries, index) ELSE entries, <<>>)
        /\ q_true' = History(IF new_state = "question" THEN {} ELSE q_true, {})
        /\ prev_answered' = History(IF new_state = "question" THEN left
                                    ELSE prev_answered, {})

\* The shared body of trigger_next and trigger_start_question once the
\* legality predicate gave `legal`.
Trigger(op, legal) ==
    LET nx == get_next_state(state, current_question_index, quiz)
    IN  /\ IF ~legal
           THEN /\ Returned(op, None, FALSE)
                /\ steps' = <<>>
                /\ UNCHANGED <<state, current_question_index,
                               current_question_answered, hook_calls,
                               advance_calls, trace, entries, q_true,
                               prev_answered, clear_calls>>
           ELSE /\ current_question_index' = nx.index
                /\ advance_calls' = History(advance_calls + nx.advanced, 0)
                /\ IF nx.next = None
                   THEN /\ Returned(op, None, FALSE)
                        /\ steps' = <<>>
                        /\ UNCHANGED <<state, current_question_answered,
                                       hook_calls, trace, entries, q_true,
                                       prev_answered, clear_calls>>
                   ELSE /\ transition_to(nx.next, nx.index)
                        /\ Returned(op, None, TRUE)
        /\ UNCHANGED <<quiz, players, broadcast_callback>>
        /\ UNCHANGED <<threadVars, entityVars>>

\* GameSession.trigger_next
trigger_next == Trigger("trigger_next", can_go_next(state))

\* GameSession.trigger_start_question
trigger_start_question ==
    Trigger("trigger_start_question", can_start_question(state))

\* The host's commands, the players' operations and the registration of the
\* callback: the entry points the host and player roles use.
CommandNext ==
    \/ \E c \in Conns, nick \in Nicks : add_player(c, nick)
    \/ \E c \in Conns : remove_player(c)
    \/ \E c \in Conns : record_answer(c)
    \/ \E registered \in BOOLEAN : set_broadcast_callback(registered)
    \/ trigger_next
    \/ trigger_start_question

CommandSpec == Init /\ [][CommandNext]_vars

----------------------------------------------------------------------------
(* CursorSpec: the operations on players, answers and state, and the calls a
   caller can make on the cursor directly; no callback is registered *)

\* A direct call of GameSession.advance_to_next_question.
call_advance_to_next_question ==
    LET adv == advance_to_next_question(current_question_index, quiz)
    IN  /\ current_question_index' = adv.index
        /\ Returned("advance_to_next_question", None, adv.ret)
        /\ steps' = <<>>
        /\ UNCHANGED <<quiz, state, players, current_question_answered,
                       broadcast_callback>>
        /\ UNCHANGED <<hook_calls, advance_calls, trace, entries, q_true,
                       prev_answered, clear_calls>>
        /\ UNCHANGED <<threadVars, entityVars>>

\* A call of GameSession.get_current_question.
call_get_current_question ==
    /\ Returned("get_current_question", None,
                get_current_question(current_question_index, quiz))
    /\ steps' = <<>>
    /\ UNCHANGED sessionVars
    /\ UNCHANGED <<hook_calls, advance_calls, trace, entries, q_true,
                   prev_answered, clear_calls>>
    /\ UNCHANGED <<threadVars, entityVars>>

CursorNext ==
    \/ \E c \in Conns, nick \in Nicks : add_player(c, nick)
    \/ \E c \in Conns : remove_player(c)
    \/ \E c \in Conns : record_answer(c)
    \/ trigger_next
    \/ trigger_start_question
    \/ call_advance_to_next_question
    \/ call_get_current_question

CursorSpec == Init /\ [][CursorNext]_vars

----------------------------------------------------------------------------
(* QuerySpec: CommandSpec and the queries of the player map and the answered-set.
   DecideSpec: get_next_state called on a state variant directly, among the
   host's operations, record_answer and the joins of one connection *)

\* What a query or a direct get_next_state call leaves alone besides the
\* session's fields.
notQueryVars == <<hook_calls, trace, entries, q_true, prev_answered,
                  clear_calls, threadVars, entityVars>>

\* get_next_state performing the transition itself: the state reference is
\* replaced by the successor and the callback called.
call_get_next_state_transitions(variant) ==
    LET nx == get_next_state(variant, current_question_index, quiz)
    IN  /\ current_question_index' = nx.index
        /\ advance_calls' = advance_calls + nx.advanced
        /\ state' = IF nx.next = None THEN state ELSE nx.next
        /\ hook_calls' = IF nx.next # None /\ broadcast_callback
                         THEN hook_calls + 1 ELSE hook_calls
        /\ Returned("get_next_state", variant, nx.next)
        /\ steps' = <<>>
        /\ UNCHANGED <<quiz, players, current_question_answered,
                       broadcast_callback>>
        /\ UNCHANGED <<trace, entries, q_true, prev_answered, clear_calls,
                       threadVars, entityVars>>

\* A call of variant.get_next_state(session) on a state object of the given
\* variant, whatever state the session is in.
call_get_next_state(variant) ==
    LET nx == get_next_state(variant, current_question_index, quiz)
    IN  /\ current_question_index' = nx.index
        /\ advance_calls' = advance_calls + nx.advanced
        /\ Returned("get_next_state", variant, nx.next)
        /\ steps' = <<>>
        /\ UNCHANGED <<quiz, state, players, current_question_answered,
                       broadcast_callback>>
        /\ UNCHANGED notQueryVars

\* A call of GameSession.has_answered_current_question
call_has_answered_current_question(c) ==
    /\ Returned("has_answered_current_question", c,
                has_answered_current_question(current_question_answered, c))
    /\ steps' = <<>>
    /\ UNCHANGED <<sessionVars, advance_calls, notQueryVars>>

\* A call of GameSession.get_player
call_get_player(c) ==
    /\ Returned("get_player", c, get_player(players, c))
    /\ steps' = <<>>
    /\ UNCHANGED <<sessionVars, advance_calls, notQueryVars>>

QueryNext ==
    \/ CommandNext
    \/ \E c \in Conns : call_has_answered_current_question(c)
    \/ \E c \in Conns : call_get_player(c)

QuerySpec == Init /\ [][QueryNext]_vars

DecideNext ==
    \/ \E nick \in Nicks : add_player("c1", nick)
    \/ \E c \in Conns : record_answer(c)
    \/ \E registered \in BOOLEAN : set_broadcast_callback(registered)
    \/ trigger_next
    \/ trigger_start_question
    \/ \E variant \in StateNames : call_get_next_state(variant)

DecideSpec == Init /\ [][DecideNext]_vars

----------------------------------------------------------------------------
(* Spec: every public function of GameSession that writes a field, and
   get_current_question. Besides the commands and operations of CommandSpec
   these are the functions a caller can reach on the object directly:
   advance_to_next_question, transition_to, clear_current_question_answers
   and the setters of state and current_question_index *)

\* What the state setter and transition_to are given: a state object, by its
\* state_name, or None.
StateRefs == StateNames \cup {None}

\* The integers the cursor's setter is given: one below and one above the
\* cursors of the largest quiz.
CursorValues == -1..MaxQuestions

\* A direct call: the histories are dropped.
Direct ==
    /\ direct' = TRUE
    /\ hook_calls' = 0
    /\ advance_calls' = 0
    /\ clear_calls' = 0
    /\ trace' = <<>>
    /\ entries' = <<>>
    /\ q_true' = {}
    /\ prev_answered' = {}

\* A direct call of GameSession.transition_to(new_state) with any state
\* object or None, whatever state the session is in. The step log tells
\* whether the callback ran.
call_transition_to(new_state) ==
    /\ state' = new_state
    /\ current_question_answered' =
           on_enter(new_state, on_leave(state, current_question_answered))
    /\ steps' = transition_steps(new_state)
    /\ Direct
    /\ Returned("transition_to", new_state, None)
    /\ UNCHANGED <<quiz, current_question_index, players, broadcast_callback>>
    /\ UNCHANGED <<threadVars, playerVars, pairVars>>

\* The setter of GameSession.state: self._state = value, no hook and no
\* callback.
state_setter(value) ==
    /\ state' = value
    /\ Direct
    /\ Returned("state", value, None)
    /\ steps' = <<>>
    /\ UNCHANGED <<quiz, current_question_index, players,
                   current_question_answered, broadcast_callback>>
    /\ UNCHANGED <<threadVars, playerVars, pairVars>>

\* The setter of GameSession.current_question_index:
\* self._current_question_index = value, unchecked.
current_question_index_setter(value) ==
    /\ current_question_index' = value
    /\ Direct
    /\ Returned("current_question_index", value, None)
    /\ steps' = <<>>
    /\ UNCHANGED <<quiz, state, players, current_question_answered,
                   broadcast_callback>>
    /\ UNCHANGED <<threadVars, playerVars, pairVars>>

\* A direct call of GameSession.clear_current_question_answers.
call_clear_current_question_answers ==
    /\ current_question_answered' =
           clear_current_question_answers(current_question_answered)
    /\ Direct
    /\ Returned("clear_current_question_answers", None, None)
    /\ steps' = <<>>
    /\ UNCHANGED <<quiz, state, current_question_index, players,
                   broadcast_callback>>
    /\ UNCHANGED <<threadVars, playerVars, pairVars>>

Next ==
    \/ \E c \in Conns, nick \in Nicks : add_player(c, nick)
    \/ \E c \in Conns : remove_player(c)
    \/ \E c \in Conns : record_answer(c)
    \/ \E registered \in BOOLEAN : set_broadcast_callback(registered)
    \/ trigger_next
    \/ trigger_start_question
    \/ call_advance_to_next_question
    \/ call_get_current_question
    \/ \E new_state \in StateRefs : call_transition_to(new_state)
    \/ \E value \in StateRefs : state_setter(value)
    \/ \E value \in CursorValues : current_question_index_setter(value)
    \/ call_clear_current_question_answers

Spec == Init /\ [][Next]_vars

\* DirectSpec: of Spec, the host's commands, record_answer and the calls on
\* the state, the cursor and the answered-set; nobody joins and no callback
\* is registered.
DirectNext ==
    \/ \E c \in Conns : record_answer(c)
    \/ trigger_next
    \/ trigger_start_question
    \/ call_advance_to_next_question
    \/ call_get_current_question
    \/ \E new_state \in StateRefs : call_transition_to(new_state)
    \/ \E value \in StateRefs : state_setter(value)
    \/ \E value \in CursorValues : current_question_index_setter(value)
    \/ call_clear_current_question_answers

DirectSpec == Init /\ [][DirectNext]_vars

----------------------------------------------------------------------------
(* LiveSpec: the host keeps issuing the command that is legal *)

\* The host's command that is legal in the current state:
\* trigger_start_question in Lobby, trigger_next in Question and Leaderboard.
LegalCommand ==
    \/ state = "lobby" /\ trigger_start_question
    \/ state \in {"question", "leaderboard"} /\ trigger_next

\* Players join, leave and answer, the host issues legal and illegal
\* commands in any order.
LiveNext ==
    \/ \E c \in Conns, nick \in Nicks : add_player(c, nick)
    \/ \E c \in Conns : remove_player(c)
    \/ \E c \in Conns : record_answer(c)
    \/ trigger_next
    \/ trigger_start_question

\* The host does not stop issuing the legal command while one exists.
LiveSpec == Init /\ [][LiveNext]_vars /\ WF_vars(LegalCommand)

----------------------------------------------------------------------------
(* FailSpec: a hook of the transition raises *)

\* The steps of transition_to that call into a state object or the callback
\* and so can raise.
RaisingSteps == {"on_leave", "on_enter", "callback"}

\* transition_to when the step `raising` raises on entry: the statements
\* before it have run, it and the statements after it have no effect. No
\* statement of transition_to, trigger_next or trigger_start_question
\* catches, so the exception leaves the call.
transition_to_raising(new_state, index, raising) ==
    LET left == on_leave(state, current_question_answered)
        entered == on_enter(new_state, left)
        replaced == raising # "on_leave"
        cleared == raising = "callback"
        now == IF replaced THEN new_state ELSE state
        answered == IF cleared THEN entered ELSE current_question_answered
    IN  /\ state' = now
        /\ current_question_answered' = answered
        /\ hook_calls' = IF raising = "callback" THEN hook_calls + 1 ELSE hook_calls
        /\ steps' = << [step |-> "raise", on |-> now, answered |-> answered] >>
        /\ clear_calls' = IF cleared
                          THEN clear_calls + on_enter_clear_calls(new_state)
                          ELSE clear_calls
        /\ trace' = IF replaced THEN Append(trace, new_state) ELSE trace
        /\ entries' = IF replaced /\ new_state = "question"
                      THEN Append(entries, index) ELSE entries
        /\ q_true' = IF replaced /\ new_state = "question" THEN {} ELSE q_true
        /\ prev_answered' = IF cleared /\ new_state = "question"
                            THEN left ELSE prev_answered

\* trigger_next or trigger_start_question, legal and with a successor, when
\* a step of its transition_to raises: get_next_state has run before.
TriggerRaising(op, legal, raising) ==
    LET nx == get_next_state(state, current_question_index, quiz)
    IN  /\ legal
        /\ nx.next # None
        /\ raising = "callback" => broadcast_callback
        /\ current_question_index' = nx.index
        /\ advance_calls' = advance_calls + nx.advanced
        /\ transition_to_raising(nx.next, nx.index, raising)
        /\ Returned(op, None, "Exception")
        /\ UNCHANGED <<quiz, players, broadcast_callback>>
        /\ UNCHANGED <<threadVars, entityVars>>

trigger_next_raising(raising) ==
    TriggerRaising("trigger_next", can_go_next(state), raising)

trigger_start_question_raising(raising) ==
    TriggerRaising("trigger_start_question", can_start_question(state), raising)

FailNext ==
    \/ \E c \in Conns : record_answer(c)
    \/ \E registered \in BOOLEAN : set_broadcast_callback(registered)
    \/ trigger_next
    \/ trigger_start_question
    \/ \E raising \in RaisingSteps : trigger_next_raising(raising)
    \/ \E raising \in RaisingSteps : trigger_start_question_raising(raising)

FailSpec == Init /\ [][FailNext]_vars

----------------------------------------------------------------------------
(* ConcSpec: threads interleave between the statements of the operations *)

\* The history of the one-caller specifications that ConcSpec does not keep: a thread's return is in
\* ret, and the trace, the cleared set, the step log and the clear count are
\* read by their properties only.
specOnlyVars == <<last, tick, trace, prev_answered, steps, clear_calls>>

\* Thread t returns r from its call.
Return(t, r) ==
    /\ pc' = [pc EXCEPT ![t] = "idle"]
    /\ ret' = [ret EXCEPT ![t] = r]

\* record_answer, first statement: `if connection_id in
\* self._current_question_answered: return False`.
t_record_answer_check(t, c) ==
    /\ pc[t] = "idle"
    /\ call' = [call EXCEPT ![t] = "record_answer"]
    /\ arg' = [arg EXCEPT ![t] = c]
    /\ in_window' = [in_window EXCEPT ![t] = TRUE]
    /\ IF already_answered(current_question_answered, c)
       THEN /\ Return(t, FALSE)
            /\ saw_true' = [saw_true EXCEPT ![t] = FALSE]
            /\ raced' = [u \in Threads |->
                            IF u # t /\ pc[u] = "record_add" THEN TRUE
                            ELSE IF u = t THEN FALSE ELSE raced[u]]
       ELSE /\ pc' = [pc EXCEPT ![t] = "record_add"]
            /\ ret' = [ret EXCEPT ![t] = None]
            /\ saw_true' = [saw_true EXCEPT ![t] = c \in q_true]
            /\ raced' = [u \in Threads |->
                            IF u # t /\ pc[u] = "record_add" THEN TRUE
                            ELSE IF u = t THEN FALSE ELSE raced[u]]
    /\ UNCHANGED sessionVars
    /\ UNCHANGED <<hook_calls, advance_calls, entries, q_true>>
    /\ UNCHANGED <<next_state, added, clean_window, second_true>>
    /\ UNCHANGED <<specOnlyVars, entityVars>>

\* record_answer, second and third statement: the insertion, `return True`.
t_record_answer_add(t) ==
    /\ pc[t] = "record_add"
    /\ current_question_answered' = add_answer(current_question_answered, arg[t])
    /\ Return(t, TRUE)
    /\ q_true' = q_true \cup {arg[t]}
    /\ added' = added \cup {arg[t]}
    /\ second_true' = IF saw_true[t] THEN second_true \cup {arg[t]} ELSE second_true
    /\ saw_true' = [saw_true EXCEPT ![t] = FALSE]
    /\ raced' = [u \in Threads |->
                    IF u # t /\ pc[u] = "record_add" THEN TRUE ELSE raced[u]]
    /\ UNCHANGED <<quiz, state, current_question_index, players, broadcast_callback>>
    /\ UNCHANGED <<hook_calls, advance_calls, entries>>
    /\ UNCHANGED <<call, arg, next_state, in_window, clean_window>>
    /\ UNCHANGED <<specOnlyVars, entityVars>>

\* trigger_next / trigger_start_question, first statement: the legality
\* predicate of the state self._state refers to now.
t_trigger_guard(t, o) ==
    /\ pc[t] = "idle"
    /\ call' = [call EXCEPT ![t] = o]
    /\ arg' = [arg EXCEPT ![t] = None]
    /\ in_window' = [in_window EXCEPT ![t] = FALSE]
    /\ saw_true' = [saw_true EXCEPT ![t] = FALSE]
    /\ raced' = [raced EXCEPT ![t] = FALSE]
    /\ LET legal == IF o = "trigger_next" THEN can_go_next(state)
                    ELSE can_start_question(state)
       IN  IF legal
           THEN /\ pc' = [pc EXCEPT ![t] = "get_next_state"]
                /\ ret' = [ret EXCEPT ![t] = None]
           ELSE Return(t, FALSE)
    /\ UNCHANGED sessionVars
    /\ UNCHANGED <<hook_calls, advance_calls, entries, q_true>>
    /\ UNCHANGED <<next_state, added, clean_window, second_true>>
    /\ UNCHANGED <<specOnlyVars, entityVars>>

\* `next_state = self._state.get_next_state(self)` on the state self._state
\* refers to now. LeaderboardState.get_next_state stops after
\* has_next_question() answered True: advance_to_next_question is a call of
\* its own.
t_get_next_state(t) ==
    /\ pc[t] = "get_next_state"
    /\ IF state = "leaderboard" /\ has_next_question(current_question_index, quiz)
       THEN /\ pc' = [pc EXCEPT ![t] = "advance"]
            /\ UNCHANGED <<ret, next_state>>
       ELSE LET nx == get_next_state(state, current_question_index, quiz)
            IN  IF nx.next = None
                THEN /\ Return(t, FALSE)
                     /\ UNCHANGED next_state
                ELSE /\ pc' = [pc EXCEPT ![t] = "transition_to"]
                     /\ next_state' = [next_state EXCEPT ![t] = nx.next]
                     /\ UNCHANGED ret
    /\ UNCHANGED sessionVars
    /\ UNCHANGED <<hook_calls, advance_calls, entries, q_true>>
    /\ UNCHANGED <<call, arg, in_window, saw_true, raced, added, clean_window,
                   second_true>>
    /\ UNCHANGED <<specOnlyVars, entityVars>>

\* LeaderboardState.get_next_state, after has_next_question() answered True,
\* calls session.advance_to_next_question(). Its first statement, `if not
\* self.has_next_question(): return False`, reads the cursor again; the
\* result of the call is discarded and QuestionState() returned either way.
t_advance(t) ==
    /\ pc[t] = "advance"
    /\ advance_calls' = advance_calls + 1
    /\ IF ~has_next_question(current_question_index, quiz)
       THEN /\ pc' = [pc EXCEPT ![t] = "transition_to"]
            /\ next_state' = [next_state EXCEPT ![t] = "question"]
       ELSE /\ pc' = [pc EXCEPT ![t] = "advance_increment"]
            /\ UNCHANGED next_state
    /\ UNCHANGED sessionVars
    /\ UNCHANGED <<hook_calls, entries, q_true>>
    /\ UNCHANGED <<call, arg, ret, in_window, saw_true, raced, added,
                   clean_window, second_true>>
    /\ UNCHANGED <<specOnlyVars, entityVars>>

\* advance_to_next_question, second statement: `self._current_question_index
\* += 1` on the cursor as it is now, whatever the test before it found; then
\* `return True` and LeaderboardState's `return QuestionState()`. The
\* statement is one step: the signatures use `str | None`, so the
\* interpreter is CPython 3.10 or later, which switches threads at calls and
\* backward jumps only, and the statement holds neither.
t_advance_increment(t) ==
    /\ pc[t] = "advance_increment"
    /\ current_question_index' = current_question_index + 1
    /\ pc' = [pc EXCEPT ![t] = "transition_to"]
    /\ next_state' = [next_state EXCEPT ![t] = "question"]
    /\ UNCHANGED <<quiz, state, players, current_question_answered,
                   broadcast_callback>>
    /\ UNCHANGED <<hook_calls, advance_calls, entries, q_true>>
    /\ UNCHANGED <<call, arg, ret, in_window, saw_true, raced, added,
                   clean_window, second_true>>
    /\ UNCHANGED <<specOnlyVars, entityVars>>

\* transition_to: on_leave of the state self._state refers to now (a no-op in
\* every variant), then `self._state = new_state`.
t_set_state(t) ==
    /\ pc[t] = "transition_to"
    /\ current_question_answered' = on_leave(state, current_question_answered)
    /\ state' = next_state[t]
    /\ pc' = [pc EXCEPT ![t] = "on_enter"]
    /\ entries' = IF next_state[t] = "question"
                  THEN Append(entries, current_question_index) ELSE entries
    /\ q_true' = IF next_state[t] = "question" THEN {} ELSE q_true
    /\ second_true' = IF next_state[t] = "question" THEN {} ELSE second_true
    /\ in_window' = [u \in Threads |-> FALSE]
    /\ UNCHANGED <<quiz, current_question_index, players, broadcast_callback>>
    /\ UNCHANGED <<hook_calls, advance_calls>>
    /\ UNCHANGED <<call, arg, ret, next_state, saw_true, raced, added,
                   clean_window>>
    /\ UNCHANGED <<specOnlyVars, entityVars>>

\* transition_to: `self._state.on_enter(self)` reads self._state and calls
\* on_enter of the variant it refers to now. QuestionState.on_enter goes on
\* to call session.clear_current_question_answers(); on_enter of the other
\* variants is GameState's no-op.
t_on_enter(t) ==
    /\ pc[t] = "on_enter"
    /\ pc' = [pc EXCEPT ![t] = IF state = "question" THEN "clear" ELSE "callback"]
    /\ UNCHANGED sessionVars
    /\ UNCHANGED <<hook_calls, advance_calls, entries, q_true>>
    /\ UNCHANGED <<call, arg, ret, next_state, in_window, saw_true, raced,
                   added, clean_window, second_true>>
    /\ UNCHANGED <<specOnlyVars, entityVars>>

\* QuestionState.on_enter: clear_current_question_answers() empties the
\* answered-set, whatever state self._state refers to by now.
t_clear(t) ==
    /\ pc[t] = "clear"
    /\ current_question_answered' =
           clear_current_question_answers(current_question_answered)
    /\ pc' = [pc EXCEPT ![t] = "callback"]
    /\ added' = {}
    /\ clean_window' = (\A u \in Threads : pc[u] # "record_add")
    /\ in_window' = [u \in Threads |-> FALSE]
    /\ UNCHANGED <<quiz, state, current_question_index, players, broadcast_callback>>
    /\ UNCHANGED <<hook_calls, advance_calls, entries, q_true>>
    /\ UNCHANGED <<call, arg, ret, next_state, saw_true, raced, second_true>>
    /\ UNCHANGED <<specOnlyVars, entityVars>>

\* transition_to: the broadcast callback if one is set; then trigger_*'s
\* `return True`.
t_callback(t) ==
    /\ pc[t] = "callback"
    /\ hook_calls' = IF broadcast_callback THEN hook_calls + 1 ELSE hook_calls
    /\ Return(t, TRUE)
    /\ next_state' = [next_state EXCEPT ![t] = None]
    /\ UNCHANGED sessionVars
    /\ UNCHANGED <<advance_calls, entries, q_true>>
    /\ UNCHANGED <<call, arg, in_window, saw_true, raced, added, clean_window,
                   second_true>>
    /\ UNCHANGED <<specOnlyVars, entityVars>>

ConcNext ==
    \E t \in Threads :
        \/ \E c \in Conns : t_record_answer_check(t, c)
        \/ t_record_answer_add(t)
        \/ \E o \in Triggers : t_trigger_guard(t, o)
        \/ t_get_next_state(t)
        \/ t_advance(t)
        \/ t_advance_increment(t)
        \/ t_set_state(t)
        \/ t_on_enter(t)
        \/ t_clear(t)
        \/ t_callback(t)

ConcSpec == Init /\ [][ConcNext]_vars

----------------------------------------------------------------------------
(* PlayerSpec: the calls that write one Player's score *)

\* What no call on a Player touches.
notPlayerVars == <<sessionVars, hook_calls, advance_calls, trace, entries,
                   q_true, prev_answered, steps, clear_calls, threadVars, pairVars,
                   directVars>>

\* Player.add_score(points): self._score += points
add_score(points) ==
    /\ score + points \in -MaxScore..MaxScore
    /\ score' = score + points
    /\ Returned("add_score", points, None)
    /\ UNCHANGED notPlayerVars

\* The score setter: a negative value raises ValueError, any other replaces
\* the score.
score_setter(value) ==
    /\ IF value < 0
       THEN /\ Returned("score", value, "ValueError")
            /\ UNCHANGED score
       ELSE /\ score' = value
            /\ Returned("score", value, None)
    /\ UNCHANGED notPlayerVars

PlayerNext ==
    \/ \E points \in -MaxPoints..MaxPoints : add_score(points)
    \/ \E value \in -MaxPoints..MaxPoints : score_setter(value)

PlayerSpec == Init /\ [][PlayerNext]_vars

----------------------------------------------------------------------------
(* ChoiceSpec: constructing ChoiceQuestions *)

\* The option lists and correct indexes the constructor is called with.
OptionLists == UNION {[1..n -> OptionTexts] : n \in 0..MaxOptions}
CorrectIndexes == -1..(MaxOptions + 1)

\* ChoiceQuestion.__init__ accepting correct_index = len(options).
ChoiceQuestionInclusive(options, correct_index) ==
    IF options = <<>>
    THEN Raises
    ELSE IF correct_index < 0 \/ correct_index > Len(options)
         THEN Raises
         ELSE [ok |-> TRUE, options |-> options, correct_index |-> correct_index]

\* ChoiceQuestion.__init__: ValueError on an empty option list and on a
\* correct_index outside [0, len(options)), else the entity with a copy of
\* the options.
ChoiceQuestion(options, correct_index) ==
    IF options = <<>>
    THEN Raises
    ELSE IF correct_index < 0 \/ correct_index >= Len(options)
         THEN Raises
         ELSE [ok |-> TRUE, options |-> options, correct_index |-> correct_index]

\* A call of the constructor.
new_ChoiceQuestion(options, correct_index) ==
    /\ Returned("ChoiceQuestion",
                [options |-> options, correct_index |-> correct_index],
                ChoiceQuestion(options, correct_index))
    /\ UNCHANGED <<sessionVars, hook_calls, advance_calls, trace, entries,
                   q_true, prev_answered, steps, clear_calls, threadVars,
                   entityVars>>

ChoiceNext ==
    \E options \in OptionLists, correct_index \in CorrectIndexes :
        new_ChoiceQuestion(options, correct_index)

ChoiceSpec == Init /\ [][ChoiceNext]_vars

----------------------------------------------------------------------------
(* PairSpec: two sessions playing the same Quiz *)

\* What no call on either session of the pair touches but the call record.
notPairVars == <<sessionVars, hook_calls, advance_calls, trace, entries,
                 q_true, prev_answered, steps, clear_calls, threadVars,
                 playerVars, directVars>>

\* A call on session s returned. Of the call the pair keeps only the session
\* it was made on.
PairReturned(s) ==
    /\ last' = [call |-> "call", arg |-> s, ret |-> None]
    /\ UNCHANGED tick

\* GameSession.add_player on session s
pair_add_player(s, c, nick) ==
    /\ heap' = [heap EXCEPT ![sess[s].players] =
                   [k \in (DOMAIN @) \cup {c} |-> IF k = c THEN nick ELSE @[k]]]
    /\ PairReturned(s)
    /\ UNCHANGED <<sess, notPairVars>>

\* GameSession.remove_player on session s
pair_remove_player(s, c) ==
    /\ heap' = [heap EXCEPT ![sess[s].players] =
                   [k \in (DOMAIN @) \ {c} |-> @[k]]]
    /\ PairReturned(s)
    /\ UNCHANGED <<sess, notPairVars>>

\* GameSession.record_answer on session s
pair_record_answer(s, c) ==
    /\ IF already_answered(heap[sess[s].answered], c)
       THEN UNCHANGED heap
       ELSE heap' = [heap EXCEPT ![sess[s].answered] = add_answer(@, c)]
    /\ PairReturned(s)
    /\ UNCHANGED <<sess, notPairVars>>

\* trigger_next or trigger_start_question on session s: the guard,
\* get_next_state and transition_to, on s's own fields and the shared quiz.
PairTrigger(s, legal) ==
    LET nx == get_next_state(sess[s].state, sess[s].index, quiz)
    IN  /\ IF ~legal
           THEN UNCHANGED <<heap, sess>>
           ELSE IF nx.next = None
                THEN /\ sess' = [sess EXCEPT ![s].index = nx.index]
                     /\ UNCHANGED heap
                ELSE /\ sess' = [sess EXCEPT ![s].index = nx.index,
                                             ![s].state = nx.next]
                     /\ heap' = [heap EXCEPT ![sess[s].answered] =
                                    on_enter(nx.next, on_leave(sess[s].state, @))]
        /\ PairReturned(s)
        /\ UNCHANGED notPairVars

pair_trigger_next(s) ==
    PairTrigger(s, can_go_next(sess[s].state))

pair_trigger_start_question(s) ==
    PairTrigger(s, can_start_question(sess[s].state))

PairNext ==
    \/ \E s \in Sessions, c \in Conns, nick \in Nicks : pair_add_player(s, c, nick)
    \/ \E s \in Sessions, c \in Conns : pair_remove_player(s, c)
    \/ \E s \in Sessions, c \in Conns : pair_record_answer(s, c)
    \/ \E s \in Sessions : pair_trigger_next(s)
    \/ \E s \in Sessions : pair_trigger_start_question(s)

PairSpec == Init /\ [][PairNext]_vars

----------------------------------------------------------------------------
(* Properties of the one-caller specifications *)

\* A call returned in this step (tick flips on every return, so a call that
\* changes nothing else is still a step).
Called(op) == tick' # tick /\ last'.call = op

\* The lifecycle's edges.
LifecycleEdges ==
    { <<"lobby", "question">>, <<"question", "leaderboard">>,
      <<"leaderboard", "question">>, <<"leaderboard", "finished">> }

\* C1: the distinct state names a session takes, in order, form a prefix of
\* lobby, question, (leaderboard, question)*, leaderboard, finished: the
\* sequence starts in lobby, ends in the current state, and every two
\* neighbours are an edge of the lifecycle, so no state is skipped and lobby
\* is never entered again.
C1_StateSequence ==
    /\ trace[1] = "lobby"
    /\ trace[Len(trace)] = state
    /\ \A i \in 1..(Len(trace) - 1) : <<trace[i], trace[i + 1]>> \in LifecycleEdges

\* C1 witness: a session that played two questions to the end.
C1_Witness ==
    trace = <<"lobby", "question", "leaderboard", "question", "leaderboard", "finished">>

\* C2: in the Question state record_answer(c) returns True exactly when c has
\* not been given True since the session entered Question: the first call of
\* a stay returns True, a repeated call False, and after the next entry into
\* Question the same c is given True again.
C2_AnswerOncePerQuestion ==
    [][ (Called("record_answer") /\ state = "question")
            => (last'.ret = (last'.arg \notin q_true)) ]_vars

\* C2 witness: in a later question, c is given True although it had answered
\* the question before.
C2_Witness ==
    /\ state = "question"
    /\ current_question_index >= 1
    /\ last.call = "record_answer"
    /\ last.ret = TRUE
    /\ last.arg \in prev_answered

\* C7: trigger_start_question in question, leaderboard or finished returns
\* False and leaves the state as it was.
C7_StartOutsideLobbyRejected ==
    [][ (Called("trigger_start_question")
            /\ state \in {"question", "leaderboard", "finished"})
            => (last'.ret = FALSE /\ state' = state) ]_vars

\* C7 witness: a start command refused on the leaderboard.
C7_Witness ==
    /\ last.call = "trigger_start_question"
    /\ last.ret = FALSE
    /\ state = "leaderboard"

\* The attempts the transition protocol rejects, by the state they find.
Rejected(op) ==
    \/ op = "trigger_next" /\ state \in {"lobby", "finished"}
    \/ op = "trigger_start_question" /\ state # "lobby"
    \/ get_next_state(state, current_question_index, quiz).next = None

\* C8: a rejected transition attempt returns False, does not call the
\* notification hook and leaves state, cursor, answered-set and player map
\* as they were; and a trigger that returns False was such an attempt.
C8_RejectedTriggerChangesNothing ==
    [][ \A op \in Triggers :
            Called(op) =>
                /\ Rejected(op) => last'.ret = FALSE
                /\ last'.ret = FALSE =>
                      /\ Rejected(op)
                      /\ UNCHANGED <<state, current_question_index,
                                     current_question_answered, players,
                                     hook_calls>> ]_vars

\* C8 witness: with a hook registered and answers recorded, trigger_next is
\* refused in the finished state.
C8_Witness ==
    /\ last.call = "trigger_next"
    /\ last.ret = FALSE
    /\ state = "finished"
    /\ broadcast_callback
    /\ hook_calls > 0
    /\ current_question_answered # {}

\* C9: over a quiz of one question the session goes lobby, question,
\* leaderboard, finished in three transitions, the cursor is 0 throughout and
\* advance_to_next_question is never invoked.
C9_SingleQuestionQuiz ==
    question_count(quiz) = 1 =>
        /\ current_question_index = 0
        /\ advance_calls = 0
        /\ trace = SubSeq(<<"lobby", "question", "leaderboard", "finished">>,
                          1, Len(trace))
        /\ state = "finished" => Len(trace) - 1 = 3

\* C9 witness: the one-question session finished.
C9_Witness ==
    /\ question_count(quiz) = 1
    /\ state = "finished"
    /\ Len(trace) = 4

\* The cursor at the successive entries into Question is 0, 1, 2, ...
EntriesInOrder == \A i \in 1..Len(entries) : entries[i] = i - 1

\* C10: the cursor at the successive entries into Question is 0, 1, ..., N-1
\* in order, each once (all N of them once the session finished); and
\* trigger_next on the leaderboard goes to question, one cursor step further,
\* exactly when cursor + 1 < N, and to finished, cursor unchanged, exactly
\* when cursor = N - 1.
C10_CursorVisitsEveryQuestion ==
    /\ [](/\ EntriesInOrder
          /\ Len(entries) <= question_count(quiz)
          /\ state = "finished" => Len(entries) = question_count(quiz))
    /\ [][ (Called("trigger_next") /\ state = "leaderboard") =>
             /\ last'.ret = TRUE
             /\ state' \in {"question", "finished"}
             /\ state' = "question" <=>
                    current_question_index + 1 < question_count(quiz)
             /\ state' = "finished" <=>
                    current_question_index = question_count(quiz) - 1
             /\ state' = "question" =>
                    current_question_index' = current_question_index + 1
             /\ state' = "finished" =>
                    current_question_index' = current_question_index ]_vars

\* C10 witness: a three-question session finished after entering Question at
\* cursor 0, 1 and 2.
C10_Witness ==
    /\ question_count(quiz) = 3
    /\ entries = <<0, 1, 2>>
    /\ state = "finished"
    /\ current_question_index = 2

\* The hook calls one transition makes: one if a callback is registered.
HookCallsPerTransition == IF broadcast_callback THEN 1 ELSE 0

\* C11: a successful trigger runs on_leave of the outgoing state, replaces
\* the state, runs on_enter of the incoming state and then, if one is
\* registered, the notification hook, each once and in this order. The hook
\* is called once per successful transition and by nothing else; it reads the
\* new state name and the answered-set as on_enter left it (empty on entry to
\* Question). A legal trigger succeeds whether or not a hook is registered.
C11_TransitionProtocolOrder ==
    [][ /\ \A op \in Triggers :
              (Called(op) /\ last'.ret = TRUE) =>
                  /\ Len(steps') = 3 + HookCallsPerTransition
                  /\ steps'[1].step = "on_leave" /\ steps'[1].on = state
                  /\ steps'[2].step = "set_state" /\ steps'[2].on = state'
                  /\ steps'[3].step = "on_enter" /\ steps'[3].on = state'
                  /\ steps'[3].answered = current_question_answered'
                  /\ broadcast_callback =>
                        /\ steps'[4].step = "callback"
                        /\ steps'[4].on = state'
                        /\ steps'[4].answered = current_question_answered'
                        /\ state' = "question" => steps'[4].answered = {}
                  /\ hook_calls' = hook_calls + HookCallsPerTransition
        /\ \A op \in Triggers :
              (Called(op) /\ ~Rejected(op)) => last'.ret = TRUE
        /\ hook_calls' # hook_calls =>
              \E op \in Triggers : Called(op) /\ last'.ret = TRUE ]_vars

\* C11 witness: with a hook registered and answers recorded for the question
\* before, trigger_next entered Question and the hook read an empty
\* answered-set and the state name question.
C11_Witness ==
    /\ last.call = "trigger_next"
    /\ last.ret = TRUE
    /\ state = "question"
    /\ prev_answered # {}
    /\ Len(steps) = 4
    /\ steps[4] = [step |-> "callback", on |-> "question", answered |-> {}]

\* C12: after any sequence of add_player, remove_player, record_answer and
\* host triggers, every connection in the answered-set is a key of the
\* player map.
C12_AnsweredSubsetOfPlayers == current_question_answered \subseteq DOMAIN players

\* The last call was a trigger that performed a transition.
Transitioned == \E op \in Triggers : Called(op) /\ last'.ret = TRUE

\* C13: the answered-set is cleared once per entry into Question, by on_enter
\* of Question: a transition into Question makes one clear call and leaves the
\* set empty, a transition into Leaderboard or Finished makes none and leaves
\* the set as it was, and nothing else makes a clear call, so the clear calls
\* number the entries into Question.
C13_ClearedOncePerQuestionEntry ==
    [][ /\ (Transitioned /\ state' = "question") =>
              /\ current_question_answered' = {}
              /\ clear_calls' = clear_calls + 1
        /\ (Transitioned /\ state' \in {"leaderboard", "finished"}) =>
              /\ current_question_answered' = current_question_answered
              /\ clear_calls' = clear_calls
        /\ clear_calls' # clear_calls => (Transitioned /\ state' = "question")
        /\ clear_calls' = Len(entries') ]_vars

\* C13 witness: the second question was answered and the session went through
\* Leaderboard to Finished with the answer still in the set, two clear calls
\* having been made for the two entries into Question.
C13_Witness ==
    /\ state = "finished"
    /\ last.call = "trigger_next"
    /\ last.ret = TRUE
    /\ current_question_answered # {}
    /\ clear_calls = 2
    /\ Len(entries) = 2

\* C14: a Player's score is never negative, whatever add_score calls and
\* score assignments were made.
C14_ScoreNeverNegative == score >= 0

\* C15: over a quiz of N >= 1 questions the cursor is a valid index, 0 <=
\* index < N, whenever the session is in Question or Leaderboard, whatever
\* public operations were called.
C15_CursorInRange ==
    /\ question_count(quiz) >= 1
    /\ state \in {"question", "leaderboard"} =>
          /\ 0 <= current_question_index
          /\ current_question_index < question_count(quiz)

\* C16: Finished is terminal. From a Finished session every operation leaves
\* the state Finished and the cursor where it is, and trigger_next and
\* trigger_start_question return False.
C16_FinishedIsTerminal ==
    [][ state = "finished" =>
          /\ state' = "finished"
          /\ current_question_index' = current_question_index
          /\ \A op \in Triggers : Called(op) => last'.ret = FALSE ]_vars

\* C17: remove_player(c) with c in the player map returns that player and
\* removes the key c, leaving the other entries; with c not in the map,
\* as in a second removal right after the first, it returns None and changes
\* nothing. It writes nothing but the player map.
C17_RemovePlayer ==
    [][ \A c \in Conns :
          (Called("remove_player") /\ last'.arg = c) =>
              /\ c \notin DOMAIN players'
              /\ DOMAIN players' = (DOMAIN players) \ {c}
              /\ \A k \in DOMAIN players' : players'[k] = players[k]
              /\ c \in DOMAIN players => last'.ret = players[c]
              /\ c \notin DOMAIN players =>
                    /\ last'.ret = None
                    /\ players' = players
              /\ (last.call = "remove_player" /\ last.arg = c) =>
                    /\ last'.ret = None
                    /\ players' = players
              /\ UNCHANGED <<quiz, state, current_question_index,
                             current_question_answered, broadcast_callback>> ]_vars

\* C17 witness: with two players in the map, remove_player returned one of
\* them and left the other in the map.
C17_Witness ==
    /\ last.call = "remove_player"
    /\ last.ret \in Nicks
    /\ last.arg \notin DOMAIN players
    /\ DOMAIN players # {}

\* C18: add_player(p) leaves the player map holding p under p's connection
\* identity and every other entry as it was. When the identity was already in
\* the map the earlier player is replaced, the number of entries stays, and
\* the call returns normally. It writes nothing but the player map.
C18_AddPlayerLastWriterWins ==
    [][ \A c \in Conns, nick \in Nicks :
          (Called("add_player") /\ last'.arg = Player(c, nick)) =>
              /\ DOMAIN players' = (DOMAIN players) \cup {c}
              /\ players'[c] = nick
              /\ \A k \in (DOMAIN players) \ {c} : players'[k] = players[k]
              /\ c \in DOMAIN players =>
                    Cardinality(DOMAIN players') = Cardinality(DOMAIN players)
              /\ last'.ret = None
              /\ UNCHANGED <<quiz, state, current_question_index,
                             current_question_answered, broadcast_callback>> ]_vars

\* C18 witness: add_player returned with its player in the map under the
\* player's connection identity, next to another connection's player of the
\* other nickname.
C18_Witness ==
    /\ last.call = "add_player"
    /\ players[last.arg.connection_id] = last.arg.nickname
    /\ Cardinality(DOMAIN players) = 2
    /\ \E k \in DOMAIN players : players[k] # last.arg.nickname

\* The cursor is an index of the quiz.
CursorOnQuestion ==
    0 <= current_question_index /\ current_question_index < question_count(quiz)

\* C19: get_current_question returns None only in Lobby or Finished; in
\* Question and Leaderboard it returns the quiz's question at the cursor. It
\* writes nothing.
C19_CurrentQuestion ==
    [][ Called("get_current_question") =>
          /\ IF CursorOnQuestion
             THEN last'.ret = quiz[current_question_index + 1]
             ELSE last'.ret = None /\ state \in {"lobby", "finished"}
          /\ state \in {"question", "leaderboard"} => CursorOnQuestion
          /\ UNCHANGED sessionVars ]_vars

\* C20: advance_to_next_question returns True and moves the cursor up by
\* one iff cursor + 1 < number of questions; otherwise it returns False and
\* the cursor stays. Either way the state, the answered-set and the player
\* map are unchanged.
C20_AdvanceToNextQuestion ==
    [][ Called("advance_to_next_question") =>
          /\ IF current_question_index + 1 < Len(quiz)
             THEN /\ last'.ret = TRUE
                  /\ current_question_index' = current_question_index + 1
             ELSE /\ last'.ret = FALSE
                  /\ current_question_index' = current_question_index
          /\ UNCHANGED <<state, current_question_answered, players>> ]_vars

\* C20 witness: in Question, entered on question 0, with a player present
\* and an answer recorded, a direct advance_to_next_question returned True
\* and left the cursor on 1.
C20_Witness ==
    /\ last.call = "advance_to_next_question"
    /\ last.ret = TRUE
    /\ state = "question"
    /\ entries = <<0>>
    /\ current_question_index = 1
    /\ current_question_answered # {}
    /\ DOMAIN players # {}

\* The last call was a trigger that an exception left.
Raised == tick' # tick /\ steps' # <<>> /\ steps'[1].step = "raise"

\* C21: when on_leave, on_enter or the callback raises during a trigger's
\* transition, the exception reaches the caller and the session's state,
\* cursor and answered-set are together those from before the call or
\* together those of the completed transition.
C21_RaisingTransitionAllOrNothing ==
    [][ Raised =>
          LET nx == get_next_state(state, current_question_index, quiz)
              before == <<state, current_question_index,
                          current_question_answered>>
              completed == <<nx.next, nx.index,
                             on_enter(nx.next,
                                      on_leave(state, current_question_answered))>>
              after == <<state', current_question_index',
                         current_question_answered'>>
          IN  /\ last'.ret = "Exception"
              /\ after = before \/ after = completed ]_vars

\* What a caller can read of session s: its state, cursor, player map and
\* answered-set.
SessionView(s) ==
    [state |-> sess[s].state, index |-> sess[s].index,
     players |-> heap[sess[s].players], answered |-> heap[sess[s].answered]]

\* C22: two sessions over the same Quiz object are isolated. An operation on
\* one session leaves the other session's state, cursor, player map and
\* answered-set, and the quiz's question sequence, as they were.
C22_SessionsIsolated ==
    [][ \A a \in Sessions :
          (last' # last /\ last'.arg = a) =>
              /\ \A b \in Sessions \ {a} : SessionView(b)' = SessionView(b)
              /\ quiz' = quiz ]_vars

\* C22 witness: session A was played to the Leaderboard of its second
\* question with no player, while session B is still in its Lobby with a
\* player and a recorded answer.
C22_Witness ==
    /\ SessionView("A").state = "leaderboard"
    /\ SessionView("A").index = 1
    /\ SessionView("A").players = <<>>
    /\ SessionView("A").answered = {}
    /\ SessionView("B").state = "lobby"
    /\ SessionView("B").index = 0
    /\ DOMAIN SessionView("B").players # {}
    /\ SessionView("B").answered # {}

\* C23: constructing a ChoiceQuestion succeeds exactly when the option list
\* is non-empty and 0 <= correct_index < len(options): it fails on an empty
\* list, on a negative index and on an index >= len(options), len(options)
\* itself included, and otherwise gives the entity with those options and
\* that index.
C23_ChoiceQuestionConstruction ==
    [][ Called("ChoiceQuestion") =>
          LET options == last'.arg.options
              correct_index == last'.arg.correct_index
              made == last'.ret
          IN  /\ made.ok <=> /\ Len(options) >= 1
                             /\ 0 <= correct_index
                             /\ correct_index < Len(options)
              /\ made.ok => /\ made.options = options
                            /\ made.correct_index = correct_index ]_vars

\* C23 witness: the construction with correct_index = len(options) on a
\* non-empty option list failed.
C23_Witness ==
    /\ last.call = "ChoiceQuestion"
    /\ Len(last.arg.options) >= 1
    /\ last.arg.correct_index = Len(last.arg.options)
    /\ ~last.ret.ok

\* C24: constructing a Quiz from an empty question sequence fails and from a
\* non-empty one gives a Quiz of that sequence; a constructed Quiz has at
\* least one question, and no session operation changes its question
\* sequence.
C24_QuizNonEmptyAndUnchanged ==
    [][ /\ ~Quiz(<<>>).ok
        /\ \A n \in 1..MaxQuestions :
              Quiz(QuizOf(n)) = [ok |-> TRUE, questions |-> QuizOf(n)]
        /\ question_count(quiz) >= 1
        /\ quiz' = quiz ]_vars

\* C24 witness: a session over the longest quiz was played to Finished with a
\* player and a recorded answer, and the quiz still has all its questions in
\* order.
C24_Witness ==
    /\ state = "finished"
    /\ quiz = QuizOf(MaxQuestions)
    /\ DOMAIN players # {}
    /\ current_question_answered # {}

\* C25: get_next_state does not perform the transition. Called on a state
\* object of any variant it leaves the session's state, answered-set and
\* player map as they were and does not call the hook; the Leaderboard
\* variant moves the cursor up by one when a next question exists, and every
\* other call leaves the cursor where it is.
C25_GetNextStateOnlyDecides ==
    [][ \A variant \in StateNames :
          (Called("get_next_state") /\ last'.arg = variant) =>
              /\ state' = state
              /\ current_question_answered' = current_question_answered
              /\ players' = players
              /\ hook_calls' = hook_calls
              /\ current_question_index' =
                    IF /\ variant = "leaderboard"
                       /\ current_question_index + 1 < Len(quiz)
                    THEN current_question_index + 1
                    ELSE current_question_index ]_vars

\* C25 witness: on the Leaderboard of question 0, with a callback
\* registered, a player joined and an answer recorded,
\* LeaderboardState.get_next_state returned Question and moved the cursor to
\* 1 while the session stayed on the Leaderboard.
C25_Witness ==
    /\ broadcast_callback
    /\ DOMAIN players # {}
    /\ last.call = "get_next_state"
    /\ last.arg = "leaderboard"
    /\ last.ret = "question"
    /\ state = "leaderboard"
    /\ entries = <<0>>
    /\ current_question_index = 1
    /\ current_question_answered # {}

\* C26: the cursor never decreases, and it changes only in a successful
\* Leaderboard -> Question transition, which moves it up by exactly one.
\* Lobby -> Question, Question -> Leaderboard, Leaderboard -> Finished, the
\* rejected triggers and the player operations leave it where it is.
C26_CursorMovesOnlyLeaderboardToQuestion ==
    [][ /\ current_question_index' >= current_question_index
        /\ current_question_index' # current_question_index =>
              /\ Called("trigger_next")
              /\ last'.ret = TRUE
              /\ state = "leaderboard"
              /\ state' = "question"
        /\ (state = "leaderboard" /\ state' = "question") =>
              current_question_index' = current_question_index + 1 ]_vars

\* C26 witness: trigger_next took the session from the Leaderboard of
\* question 1 into Question with the cursor on 2, the questions having been
\* entered at 0, 1, 2.
C26_Witness ==
    /\ last.call = "trigger_next"
    /\ last.ret = TRUE
    /\ state = "question"
    /\ current_question_index = 2
    /\ entries = <<0, 1, 2>>
    /\ DOMAIN players # {}

\* The operations players cause.
PlayerOps == {"add_player", "remove_player", "get_player", "record_answer",
              "has_answered_current_question"}

\* C27: add_player, remove_player, get_player, record_answer and
\* has_answered_current_question leave the state and the cursor as they were
\* and do not call the hook. has_answered_current_question changes nothing
\* and returns True for c exactly when c is in the answered-set, which is
\* exactly when record_answer(c) returns False.
C27_PlayerOperationsFrame ==
    [][ /\ \A op \in PlayerOps :
              Called(op) =>
                  /\ state' = state
                  /\ current_question_index' = current_question_index
                  /\ hook_calls' = hook_calls
        /\ \A c \in Conns :
              /\ (Called("has_answered_current_question") /\ last'.arg = c) =>
                    /\ last'.ret = (c \in current_question_answered)
                    /\ UNCHANGED sessionVars
              /\ (Called("record_answer") /\ last'.arg = c) =>
                    last'.ret = (c \notin current_question_answered) ]_vars

\* C27 witness: in Question, with a callback registered,
\* has_answered_current_question returned True for a connection that has
\* answered.
C27_Witness ==
    /\ broadcast_callback
    /\ last.call = "has_answered_current_question"
    /\ last.ret = TRUE
    /\ last.arg \in current_question_answered
    /\ state = "question"

\* C28: record_answer looks at nothing but the answered-set. In every state,
\* Lobby, Leaderboard and Finished included, and for a connection that is no
\* key of the player map, record_answer(c) returns True and inserts c when c
\* is not in the answered-set, and returns False and inserts nothing when it
\* is.
C28_RecordAnswerNotGated ==
    [][ \A c \in Conns :
          (Called("record_answer") /\ last'.arg = c) =>
              /\ last'.ret = (c \notin current_question_answered)
              /\ current_question_answered' = current_question_answered \cup {c}
              /\ UNCHANGED <<state, current_question_index, players>> ]_vars

\* C28 witness: in Finished, record_answer returned True for a connection
\* that is not in the player map, and the connection is in the answered-set.
C28_Witness ==
    /\ last.call = "record_answer"
    /\ last.ret = TRUE
    /\ state = "finished"
    /\ last.arg \notin DOMAIN players
    /\ last.arg \in current_question_answered

\* C29: a disconnect and reconnect inside one question does not reset the
\* double-scoring guard. A connection given True stays in the answered-set
\* until the session next enters Question: remove_player and add_player leave
\* the answered-set as it was, so record_answer(c) returns False for every c
\* given True since the last entry into Question, and only an entry into
\* Question ends that.
C29_ReconnectKeepsGuard ==
    [][ /\ \A op \in {"remove_player", "add_player"} :
              Called(op) =>
                  /\ current_question_answered' = current_question_answered
                  /\ q_true' = q_true
        /\ q_true' \subseteq current_question_answered'
        /\ \A c \in Conns :
              (Called("record_answer") /\ last'.arg = c /\ c \in q_true) =>
                  last'.ret = FALSE
        /\ (\E c \in q_true : c \notin q_true') =>
              (Transitioned /\ state' = "question") ]_vars

\* C29 witness: in Question, a connection that was given True for this
\* question and is in the player map called record_answer again and got
\* False, while the other connection is not in the map.
C29_Witness ==
    /\ state = "question"
    /\ last.call = "record_answer"
    /\ last.ret = FALSE
    /\ last.arg \in q_true
    /\ DOMAIN players = {last.arg}

\* The successful transitions made so far.
Transitions == Len(trace) - 1

\* C30: when the host keeps issuing the legal command, a session over a quiz
\* of N questions reaches Finished and stays there, having made exactly
\* 2N + 1 successful transitions, whatever player operations and rejected
\* triggers come in between.
C30_EventuallyFinished ==
    <>[](state = "finished" /\ Transitions = 2 * question_count(quiz) + 1)

\* C30 witness: a session over the longest quiz is Finished after 2N + 1
\* transitions, with a player joined, an answer recorded and a rejected
\* trigger_start_question as the last call.
C30_Witness ==
    /\ state = "finished"
    /\ question_count(quiz) = MaxQuestions
    /\ Transitions = 2 * MaxQuestions + 1
    /\ DOMAIN players # {}
    /\ current_question_answered # {}
    /\ last.call = "trigger_start_question"
    /\ last.ret = FALSE

----------------------------------------------------------------------------
(* Properties of ConcSpec *)

\* Thread t returned from record_answer, and no transition step (state
\* replaced, answered-set cleared) ran since that call began.
AnsweredInWindow(t) ==
    /\ pc[t] = "idle"
    /\ call[t] = "record_answer"
    /\ in_window[t]

\* C3: of two record_answer(c) calls for one connection c made by two threads
\* during a single stay in the Question state, one of which found c absent,
\* exactly one returns True and the other False.
C3_ConcurrentDuplicateRejected ==
    \A t1, t2 \in Threads :
        ( /\ t1 # t2
          /\ state = "question"
          /\ AnsweredInWindow(t1)
          /\ AnsweredInWindow(t2)
          /\ arg[t1] = arg[t2]
          /\ (ret[t1] = TRUE \/ ret[t2] = TRUE) )
        => ret[t1] # ret[t2]

\* C4: concurrent record_answer calls lose nothing and add nothing else. A
\* call that returned since the last transition step left its connection in
\* the answered-set, whether it inserted it (True) or found it there (False),
\* so a call for a connection that is not in the set returns True; and (when
\* no insertion was pending at the last clear) the answered-set holds exactly
\* the connections given True since then.
C4_NoSubmissionLost ==
    /\ \A t \in Threads :
           AnsweredInWindow(t) =>
               /\ ret[t] \in BOOLEAN
               /\ arg[t] \in current_question_answered
    /\ clean_window => current_question_answered = added

\* C4 witness: in the Question state two threads answered for two distinct
\* connections, each between the other's membership check and insertion;
\* both returned True and the answered-set holds both.
C4_Witness ==
    \E t1, t2 \in Threads :
        /\ t1 # t2
        /\ state = "question"
        /\ AnsweredInWindow(t1) /\ AnsweredInWindow(t2)
        /\ arg[t1] # arg[t2]
        /\ ret[t1] = TRUE /\ ret[t2] = TRUE
        /\ raced[t1] /\ raced[t2]
        /\ clean_window
        /\ current_question_answered = {arg[t1], arg[t2]}
        /\ Cardinality(current_question_answered) = 2

\* C5: a record_answer(c) that returned True after the state reference
\* became Question is not erased by that transition's on_enter, so no later
\* record_answer(c) call returns True for the same question.
C5_TransitionNotTorn == second_true = {}

\* C6: concurrent transition attempts behave as if run one after the other;
\* in particular the cursor advances by at most one from one entry into
\* Question to the next, so no question index is skipped.
C6_NoQuestionIndexSkipped ==
    /\ Len(entries) >= 1 => entries[1] = 0
    /\ \A i \in 2..Len(entries) : entries[i] <= entries[i - 1] + 1

====
